---- MODULE Spec2Model ----
(***************************************************************************)
(* Model of the Mai Shan Yun dashboard engine (src/api.py): the three      *)
(* module globals monthly_sales / ingredient_df / shipment_df, load_data   *)
(* executed statement by statement, and the read endpoints computed from   *)
(* the globals as the handlers compute them, one read of a global at a     *)
(* time, so that the statements of a running load_data interleave with     *)
(* the reads of a handler.                                                 *)
(*                                                                         *)
(* Text is modelled as a sequence of one-character strings so that         *)
(* str.lower(), the `in` substring test, str.replace() and the f-string /  *)
(* int() round trip of cost_analysis are computed, not assumed.            *)
(* A numeric cell is a record [nan, v]: pandas reads an empty CSV field as *)
(* NaN.  Quantities scaled by a frequency are kept as exact multiples of   *)
(* 1/4 and costs as exact multiples of 1/100 (the cost table has two       *)
(* decimals); the float arithmetic of cost_analysis and of the growth      *)
(* fallback of forecast is computed in IEEE binary64 (53-bit mantissa,     *)
(* round to nearest even).  np.polyfit is the exact least-squares line:    *)
(* the rounding error of the LAPACK solver is not modelled.                *)
(***************************************************************************)
EXTENDS Integers, Sequences, FiniteSets, TLC

VARIABLES
    disk,            \* the files load_data reads (environment)
    replaced,        \* number of times the files were replaced
    monthly_sales,   \* global monthly_sales: month -> sales table
    ingredient_df,   \* global ingredient_df (absent = None)
    shipment_df,     \* global shipment_df (absent = None)
    pc,              \* position of the running load_data, "idle" when none runs
    mi,              \* index of the month the loop of load_data is at
    loads,           \* number of load_data calls started
    old,             \* history: the globals when the running load_data was called
    written,         \* history: the globals as load_data last assigned them
    call,            \* the request being handled: its handler, position and locals
    result,          \* the value the last endpoint call returned (or its exception)
    ref              \* history: an earlier result, kept for comparison

vars ==
    <<disk, replaced, monthly_sales, ingredient_df, shipment_df, pc, mi, loads, old, written, call, result, ref>>

----------------------------------------------------------------------------
(* result: which endpoint answered, whether it let an exception out, and   *)
(* the JSON value it returned                                              *)

NoResult ==
    [op |-> "none", raised |-> FALSE, value |-> <<>>]

\* no request is being handled
NoCall ==
    [op |-> "none", at |-> "start", loc |-> <<>>]

----------------------------------------------------------------------------
(* Bounds of the model *)

MaxLoads ==
    2
MaxReplacements ==
    1
MaxRows ==
    3
MaxCount ==
    4
MaxPeriods ==
    3

----------------------------------------------------------------------------
(* Text *)

UpperChars ==
    <<"A", "B", "C", "D", "E", "F", "G", "H", "I", "J", "K", "L", "M",
      "N", "O", "P", "Q", "R", "S", "T", "U", "V", "W", "X", "Y", "Z">>
LowerChars ==
    <<"a", "b", "c", "d", "e", "f", "g", "h", "i", "j", "k", "l", "m",
      "n", "o", "p", "q", "r", "s", "t", "u", "v", "w", "x", "y", "z">>

LowerChar(c) ==
    IF \E i \in DOMAIN UpperChars : UpperChars[i] = c
    THEN LowerChars[CHOOSE i \in DOMAIN UpperChars : UpperChars[i] = c]
    ELSE c

\* str.lower()
Lower(s) ==
    [i \in 1..Len(s) |-> LowerChar(s[i])]

\* `sub in s`
Contains(sub, s) ==
    \E i \in 0..(Len(s) - Len(sub)) : SubSeq(s, i + 1, i + Len(sub)) = sub

\* str.replace(pat, rep): leftmost, non-overlapping occurrences
RECURSIVE Replace(_, _, _)
Replace(s, pat, rep) ==
    IF Len(s) < Len(pat) \/ Len(pat) = 0 THEN s
    ELSE IF SubSeq(s, 1, Len(pat)) = pat
         THEN rep \o Replace(SubSeq(s, Len(pat) + 1, Len(s)), pat, rep)
         ELSE <<Head(s)>> \o Replace(Tail(s), pat, rep)

\* str.strip()
RECURSIVE Strip(_)
Strip(s) ==
    IF s = <<>> THEN s
    ELSE IF Head(s) = " " THEN Strip(Tail(s))
    ELSE IF s[Len(s)] = " " THEN Strip(SubSeq(s, 1, Len(s) - 1))
    ELSE s

DigitChars ==
    <<"0", "1", "2", "3", "4", "5", "6", "7", "8", "9">>

RECURSIVE FormatNat(_)
FormatNat(n) ==
    IF n < 10 THEN <<DigitChars[n + 1]>>
    ELSE FormatNat(n \div 10) \o <<DigitChars[(n % 10) + 1]>>

\* str(n) / f"{n}" of an int
FormatInt(n) ==
    IF n < 0 THEN <<"-">> \o FormatNat(-n) ELSE FormatNat(n)

DigitValue(c) ==
    (CHOOSE i \in DOMAIN DigitChars : DigitChars[i] = c) - 1

RECURSIVE ParseNat(_)
ParseNat(s) ==
    IF s = <<>> THEN 0
    ELSE 10 * ParseNat(SubSeq(s, 1, Len(s) - 1)) + DigitValue(s[Len(s)])

\* int(text)
ParseInt(s) ==
    IF s # <<>> /\ Head(s) = "-" THEN -ParseNat(Tail(s)) ELSE ParseNat(s)

\* int(x) of the rational n/d (d > 0): truncation toward zero
Trunc(n, d) ==
    IF n >= 0 THEN n \div d ELSE -((-n) \div d)

\* n/d rounded to the nearest integer, halves away from zero
RoundNearest(n, d) ==
    IF n >= 0 THEN (2 * n + d) \div (2 * d) ELSE -((2 * (-n) + d) \div (2 * d))

S_weekly ==
    <<"w", "e", "e", "k", "l", "y">>
S_biweekly ==
    <<"b", "i", "w", "e", "e", "k", "l", "y">>
S_monthly ==
    <<"m", "o", "n", "t", "h", "l", "y">>
S_egg ==
    <<"e", "g", "g">>
S_beef ==
    <<"b", "e", "e", "f">>
S_chicken ==
    <<"c", "h", "i", "c", "k", "e", "n">>
S_rice ==
    <<"r", "i", "c", "e">>
S_ramen ==
    <<"r", "a", "m", "e", "n">>
S_flour ==
    <<"f", "l", "o", "u", "r">>
S_onion ==
    <<"o", "n", "i", "o", "n">>
S_carrot ==
    <<"c", "a", "r", "r", "o", "t">>
S_wing ==
    <<"w", "i", "n", "g">>
S_dollar ==
    <<"$">>
S_perwk ==
    <<"/", "w", "k">>
S_g ==
    <<"(", "g", ")">>
S_count ==
    <<"(", "c", "o", "u", "n", "t", ")">>
S_pcs ==
    <<"(", "p", "c", "s", ")">>
S_GreenOnion ==
    <<"G", "r", "e", "e", "n", " ", "O", "n", "i", "o", "n">>
S_Cilantro ==
    <<"C", "i", "l", "a", "n", "t", "r", "o">>
S_Bokchoy ==
    <<"B", "o", "k", "c", "h", "o", "y">>
S_BraisedBeef ==
    <<"b", "r", "a", "i", "s", "e", "d", " ", "b", "e", "e", "f", " ", "u", "s", "e", "d", " ", "(", "g", ")">>
S_BraisedChicken ==
    <<"B", "r", "a", "i", "s", "e", "d", " ", "C", "h", "i", "c", "k", "e", "n", "(", "g", ")">>
S_BraisedPork ==
    <<"B", "r", "a", "i", "s", "e", "d", " ", "P", "o", "r", "k", "(", "g", ")">>
S_Ramen ==
    <<"R", "a", "m", "e", "n">>
S_FriedRice ==
    <<"F", "r", "i", "e", "d", " ", "R", "i", "c", "e">>
S_Wing ==
    <<"W", "i", "n", "g">>
S_Cutlet ==
    <<"C", "u", "t", "l", "e", "t">>
S_RiceNoodle ==
    <<"R", "i", "c", "e", " ", "N", "o", "o", "d", "l", "e">>

----------------------------------------------------------------------------
(* Input pools: names, frequencies and units found in the data files *)

N_Beef ==
    <<"B", "e", "e", "f">>
N_Egg ==
    <<"E", "g", "g">>
N_Rice ==
    <<"R", "i", "c", "e">>
N_Carrot ==
    <<"C", "a", "r", "r", "o", "t">>
N_Chicken ==
    <<"C", "h", "i", "c", "k", "e", "n">>
N_ChickenWings ==
    <<"C", "h", "i", "c", "k", "e", "n", " ", "W", "i", "n", "g", "s">>
F_Weekly ==
    <<"W", "e", "e", "k", "l", "y">>
F_Biweekly ==
    <<"B", "i", "w", "e", "e", "k", "l", "y">>
F_Monthly ==
    <<"M", "o", "n", "t", "h", "l", "y">>
F_Daily ==
    <<"D", "a", "i", "l", "y">>
U_lbs ==
    <<"l", "b", "s">>
U_case ==
    <<"c", "a", "s", "e">>
G_TonkotsuRamen ==
    <<"T", "o", "n", "k", "o", "t", "s", "u", " ", "R", "a", "m", "e", "n">>
G_ChickenCutlet ==
    <<"C", "h", "i", "c", "k", "e", "n", " ", "C", "u", "t", "l", "e", "t">>
G_Drinks ==
    <<"D", "r", "i", "n", "k", "s">>
I_BeefRamen ==
    <<"B", "e", "e", "f", " ", "R", "a", "m", "e", "n">>
I_EggRice ==
    <<"E", "g", "g", " ", "R", "i", "c", "e">>
S_ItemName ==
    <<"I", "t", "e", "m", " ", "n", "a", "m", "e">>
S_EggCount ==
    <<"E", "g", "g", "(", "c", "o", "u", "n", "t", ")">>
S_RiceG ==
    <<"R", "i", "c", "e", "(", "g", ")">>

----------------------------------------------------------------------------
(* Values and tables *)

\* a numeric cell: an int, or NaN for an empty field
Num(n) ==
    [nan |-> FALSE, v |-> n]
NaN ==
    [nan |-> TRUE, v |-> 0]

\* x * y on cells: NaN propagates
Mul(x, y) ==
    IF x.nan \/ y.nan THEN NaN ELSE Num(x.v * y.v)

\* safe_val(v, default) on a numeric cell
safe_val(v, default) ==
    IF v.nan THEN default ELSE v

\* an entry of a JSON list that may be None
Absent ==
    [none |-> TRUE, v |-> 0]
Val(n) ==
    [none |-> FALSE, v |-> n]

Months ==
    <<"May", "June", "July", "August", "September", "October">>

EmptySales ==
    [m \in {} |-> 0]

ShipmentColumns ==
    {"Ingredient", "Quantity per shipment", "Number of shipments", "frequency", "Unit of shipment"}

\* shipment_df = None
NoShipment ==
    [present |-> FALSE, columns |-> {}, rows |-> <<>>]
\* ingredient_df = None
NoIngredient ==
    [present |-> FALSE, columns |-> <<>>, rows |-> <<>>]

ShipmentTable(rows) ==
    [present |-> TRUE, columns |-> ShipmentColumns, rows |-> rows]

ShipRow(ing, q, n, f, u) ==
    [Ingredient |-> ing, Quantity |-> q, Number |-> n, frequency |-> f, Unit |-> u]

Min(a, b) ==
    IF a <= b THEN a ELSE b

\* seq[:n]
Take(seq, n) ==
    SubSeq(seq, 1, Min(n, Len(seq)))

RECURSIVE Concat(_)
Concat(seqs) ==
    IF seqs = <<>> THEN <<>> ELSE Head(seqs) \o Concat(Tail(seqs))

RECURSIVE SumSeq(_)
SumSeq(s) ==
    IF s = <<>> THEN 0 ELSE Head(s) + SumSeq(Tail(s))

\* indices of keys, largest key first, equal keys in index order (stable)
RECURSIVE SortedDesc(_, _)
SortedDesc(keys, remaining) ==
    IF remaining = {} THEN <<>>
    ELSE LET best == CHOOSE i \in remaining :
                       \A j \in remaining :
                           keys[i] > keys[j] \/ (keys[i] = keys[j] /\ i <= j)
         IN <<best>> \o SortedDesc(keys, remaining \ {best})

----------------------------------------------------------------------------
(* load_data, one statement at a time *)

Globals ==
    <<monthly_sales, ingredient_df, shipment_df>>

\* monthly_sales[month] = table
DictSet(dict, key, value) ==
    [k \in (DOMAIN dict) \cup {key} |-> IF k = key THEN value ELSE dict[k]]
----------------------------------------------------------------------------
(* Python float: a non-negative IEEE binary64 value is [m, e], the         *)
(* mantissa m as a sequence of bits (most significant first) and the       *)
(* value m * 2^e.  Every operation rounds its exact result to 53 bits, to  *)
(* nearest, ties to even.                                                  *)

MantissaBits ==
    53
\* zeros appended to a dividend, enough for 53 quotient bits and a guard bit
DivisionBits ==
    70
\* bits multiplied in one step, small enough for the products to stay in TLC's integers
LimbBits ==
    8

RECURSIVE BitsOf(_)
BitsOf(n) ==
    IF n = 0 THEN <<>> ELSE BitsOf(n \div 2) \o <<n % 2>>

RECURSIVE IntOf(_)
IntOf(b) ==
    IF b = <<>> THEN 0 ELSE 2 * IntOf(SubSeq(b, 1, Len(b) - 1)) + b[Len(b)]

\* b without its leading zeros
StripZeros(b) ==
    IF \A i \in DOMAIN b : b[i] = 0 THEN <<>>
    ELSE SubSeq(b, CHOOSE i \in DOMAIN b : b[i] = 1 /\ \A j \in 1..(i - 1) : b[j] = 0, Len(b))

\* the n low bits of v
LowBits(v, n) ==
    [i \in 1..n |-> (v \div 2 ^ (n - i)) % 2]

\* the bits of b * k + carry, multiplying LimbBits bits at a time from the low end
RECURSIVE MulBits(_, _, _)
MulBits(b, k, carry) ==
    IF b = <<>> THEN BitsOf(carry)
    ELSE LET n == IF Len(b) < LimbBits THEN Len(b) ELSE LimbBits
             t == IntOf(SubSeq(b, Len(b) - n + 1, Len(b))) * k + carry
         IN MulBits(SubSeq(b, 1, Len(b) - n), k, t \div 2 ^ n) \o LowBits(t % 2 ^ n, n)

\* long division of b by d, entered with remainder rem: quotient bits and
\* remainder, computed by halves
RECURSIVE DivBits(_, _, _)
DivBits(b, d, rem) ==
    IF b = <<>> THEN [q |-> <<>>, r |-> rem]
    ELSE IF Len(b) = 1
         THEN LET t == 2 * rem + b[1]
              IN [q |-> <<IF t >= d THEN 1 ELSE 0>>, r |-> IF t >= d THEN t - d ELSE t]
    ELSE LET h == Len(b) \div 2
             high == DivBits(SubSeq(b, 1, h), d, rem)
             low == DivBits(SubSeq(b, h + 1, Len(b)), d, high.r)
         IN [q |-> high.q \o low.q, r |-> low.r]

\* b + 1
IncBits(b) ==
    IF \A i \in DOMAIN b : b[i] = 1 THEN <<1>> \o [i \in DOMAIN b |-> 0]
    ELSE LET z == CHOOSE i \in DOMAIN b : b[i] = 0 /\ \A j \in (i + 1)..Len(b) : b[j] = 1
         IN [i \in DOMAIN b |-> IF i < z THEN b[i] ELSE IF i = z THEN 1 ELSE 0]

\* b * 2^e (plus a non-zero rest below the last bit when sticky) as a float
Round53(b, e, sticky) ==
    IF Len(b) <= MantissaBits THEN [m |-> b, e |-> e]
    ELSE LET keep == SubSeq(b, 1, MantissaBits)
             guard == b[MantissaBits + 1]
             rest == sticky \/ \E i \in (MantissaBits + 2)..Len(b) : b[i] = 1
             up == guard = 1 /\ (rest \/ keep[MantissaBits] = 1)
         IN [m |-> IF up THEN IncBits(keep) ELSE keep, e |-> e + Len(b) - MantissaBits]

\* float(n) of an int n >= 0
FInt(n) ==
    [m |-> BitsOf(n), e |-> 0]

\* x * 2^k
FScale(x, k) ==
    [m |-> x.m, e |-> x.e + k]

\* x * k for an int k >= 0
FMulInt(x, k) ==
    Round53(StripZeros(MulBits(x.m, k, 0)), x.e, FALSE)

\* x / d for an int d > 0
FDivInt(x, d) ==
    LET qr == DivBits(x.m \o [i \in 1..DivisionBits |-> 0], d, 0)
    IN Round53(StripZeros(qr.q), x.e - DivisionBits, qr.r # 0)

\* int(x)
FFloor(x) ==
    IF x.e >= 0 THEN IntOf(x.m \o [i \in 1..x.e |-> 0])
    ELSE IF Len(x.m) + x.e <= 0 THEN 0
    ELSE IntOf(SubSeq(x.m, 1, Len(x.m) + x.e))

----------------------------------------------------------------------------
(* The endpoints.  A handler runs one statement at a time: XStep(at, loc,   *)
(* globals) is the statement at position at (named after its source line)  *)
(* with the locals loc, reading each global once with the value it has     *)
(* now.  It gives Goto(next position, locals) or Done(outcome); an outcome  *)
(* is [raised, value], raised = TRUE when the handler lets an exception     *)
(* out (value is then the name of the exception).                          *)

Return(v) ==
    [raised |-> FALSE, value |-> v]
Raise(v) ==
    [raised |-> TRUE, value |-> v]

Goto(at, loc) ==
    [done |-> FALSE, at |-> at, loc |-> loc, out |-> Return(<<>>)]
Done(out) ==
    [done |-> TRUE, at |-> "start", loc |-> <<>>, out |-> out]

\* the weekly quantity is kept as a multiple of 1/UsageScale
UsageScale ==
    4
\* UsageScale = 2^UsageBits
UsageBits ==
    2
\* unit costs are kept as multiples of 1/CostScale
CostScale ==
    100
WeeklyBudget ==
    1500
HighFrequency ==
    5
BulkThreshold ==
    4
TopUsage ==
    6
TopCost ==
    5
MaxAlerts ==
    3
DefaultForecast ==
    500
\* the growth factor 1.05 as GrowthNum / CostScale
GrowthNum ==
    105
RandLow ==
    1
RandHigh ==
    7

\* ingredient_usage.weekly_calc(row): the weekly quantity in units of 1/UsageScale
weekly_calc(row) ==
    LET qty == safe_val(row.Quantity, Num(0)).v * safe_val(row.Number, Num(0)).v
        freq == Lower(row.frequency)
    IN IF Contains(S_weekly, freq) THEN UsageScale * qty
       ELSE IF Contains(S_biweekly, freq) THEN (UsageScale \div 2) * qty
       ELSE IF Contains(S_monthly, freq) THEN qty
       ELSE UsageScale * qty

\* df.nlargest(n, col): row indices, keep='first'
NLargest(n, keys) ==
    Take(SortedDesc(keys, DOMAIN keys), n)

\* the JSON object metrics() returns
MetricsValue(items, ingredients, weekly, alertCount) ==
    [totalItems |-> items, totalIngredients |-> ingredients,
     weeklyShipments |-> weekly, alertCount |-> alertCount]

MetricsLocals ==
    [items |-> 0, ingredients |-> 0, freq |-> <<>>, weekly |-> 0]

\* shipment_df['Number of shipments'].apply(safe_val)
NumberColumn(sdf) ==
    [i \in 1..Len(sdf.rows) |-> safe_val(sdf.rows[i].Number, Num(0)).v]

\* metrics(); an exception inside the try block leaves weekly = alerts = 0
MetricsStep(at, loc, idf, sdf) ==
    LET caught == Done(Return(MetricsValue(loc.items, loc.ingredients, 0, 0)))
        hasNumber == "Number of shipments" \in sdf.columns
    IN CASE at = "start" ->      \* l.97: ingredient_df is not None
              IF idf.present THEN Goto("97", MetricsLocals) ELSE Goto("98", MetricsLocals)
         [] at = "97" ->         \* l.97: len(ingredient_df)
              IF idf.present THEN Goto("98", [loc EXCEPT !.items = Len(idf.rows)])
              ELSE Done(Raise("TypeError"))
         [] at = "98" ->         \* l.98: shipment_df is not None
              IF sdf.present THEN Goto("98len", loc) ELSE Goto("102", loc)
         [] at = "98len" ->      \* l.98: len(shipment_df)
              IF sdf.present THEN Goto("102", [loc EXCEPT !.ingredients = Len(sdf.rows)])
              ELSE Done(Raise("TypeError"))
         [] at = "102" ->
              IF sdf.present THEN Goto("104", loc)
              ELSE Done(Return(MetricsValue(loc.items, loc.ingredients, 0, 0)))
         [] at = "104" ->        \* l.104: 'frequency' in shipment_df.columns
              IF ~sdf.present THEN caught
              ELSE IF "frequency" \in sdf.columns THEN Goto("104and", loc) ELSE Goto("108", loc)
         [] at = "104and" ->     \* l.104: and 'Number of shipments' in shipment_df.columns
              IF ~sdf.present THEN caught
              ELSE IF hasNumber THEN Goto("105", loc) ELSE Goto("108", loc)
         [] at = "105" ->
              IF ~sdf.present \/ "frequency" \notin sdf.columns THEN caught
              ELSE Goto("106", [loc EXCEPT !.freq =
                                   [i \in 1..Len(sdf.rows) |-> Lower(sdf.rows[i].frequency)]])
         [] at = "106" ->        \* l.106-107: num[freq == 'weekly'] aligns the mask freq
                                 \* with the index of num and fails on a row it lacks
              IF ~sdf.present \/ ~hasNumber \/ Len(loc.freq) < Len(sdf.rows) THEN caught
              ELSE Goto("108", [loc EXCEPT !.weekly =
                                   SumSeq([i \in 1..Len(sdf.rows) |->
                                             IF loc.freq[i] = S_weekly
                                             THEN NumberColumn(sdf)[i] ELSE 0])])
         [] at = "108" ->
              IF ~sdf.present THEN caught
              ELSE IF hasNumber THEN Goto("109", loc)
              ELSE Done(Return(MetricsValue(loc.items, loc.ingredients, loc.weekly, 0)))
         [] at = "109" ->
              IF ~sdf.present \/ ~hasNumber THEN caught
              ELSE Done(Return(MetricsValue(loc.items, loc.ingredients, loc.weekly,
                          Cardinality({i \in 1..Len(sdf.rows) :
                                         NumberColumn(sdf)[i] >= HighFrequency}))))

EmptyUsage ==
    [labels |-> <<>>, data |-> <<>>]

\* ingredient_usage(), l.128-146, on the table it copied
IngredientUsage(sdf) ==
    LET rows == sdf.rows
        usage == [i \in 1..Len(rows) |-> weekly_calc(rows[i])]
        top6 == NLargest(TopUsage, usage)
    IN IF Len(rows) = 0 THEN Return(EmptyUsage)
       ELSE Return([labels |-> [j \in 1..Len(top6) |-> rows[top6[j]].Ingredient],
                    data |-> [j \in 1..Len(top6) |-> Trunc(usage[top6[j]], UsageScale)]])

\* ingredient_usage(); shipment_df.copy() of None is caught by the try block
UsageStep(at, loc, sdf) ==
    CASE at = "start" ->         \* l.124
            IF sdf.present THEN Goto("128", <<>>) ELSE Done(Return(EmptyUsage))
      [] at = "128" ->
            IF sdf.present THEN Done(IngredientUsage(sdf)) ELSE Done(Return(EmptyUsage))

\* a slip: df = shipment_df without .copy(), so that df['weekly_usage'] = ...
\* adds the column to the global table
ShipmentAfterUsageAliased(sdf) ==
    IF sdf.present THEN [sdf EXCEPT !.columns = @ \cup {"weekly_usage"}] ELSE sdf

\* ingredient_usage(): the global shipment_df after l.128-140.  Line 128 takes
\* a copy, so the weekly_usage column is assigned to the copy only.
ShipmentAfterUsage(sdf) ==
    sdf

Categories ==
    << <<"Ramen Dishes", <<S_Ramen>> >>,
       <<"Fried Rice", <<S_FriedRice>> >>,
       <<"Wings & Cutlets", <<S_Wing, S_Cutlet>> >>,
       <<"Rice Noodles", <<S_RiceNoodle>> >> >>

\* months of the canonical list that are loaded, in canonical order
RECURSIVE AvailableFrom(_, _)
AvailableFrom(ms, i) ==
    IF i > Len(Months) THEN <<>>
    ELSE (IF Months[i] \in DOMAIN ms THEN <<Months[i]>> ELSE <<>>) \o AvailableFrom(ms, i + 1)

Available(ms) ==
    AvailableFrom(ms, 1)

\* df['Group'].astype(str).str.contains(keyword, case=False).sum()
CountContains(table, keyword) ==
    Cardinality({i \in 1..Len(table.Group) : Contains(Lower(keyword), Lower(table.Group[i]))})

\* l.171-174: the count of the category c in one sales table
CategoryCount(table, c) ==
    IF table.hasGroup
    THEN SumSeq([k \in 1..Len(Categories[c][2]) |-> CountContains(table, Categories[c][2][k])])
    ELSE 0

\* the JSON object sales_trends() returns; counts lists the counts in the
\* order they were appended, category by category
SalesValue(available, counts) ==
    [labels |-> available,
     datasets |-> [c \in 1..Len(Categories) |->
                     [label |-> Categories[c][1],
                      data |-> [j \in 1..Len(available) |->
                                  counts[(c - 1) * Len(available) + j]]]]]

\* locals of sales_trends() and forecast(): i counts the iterations of the
\* loop at hand, counts collects what the loop appends
MonthLocals ==
    [available |-> <<>>, i |-> 1, counts |-> <<>>]

\* one iteration of [m for m in months if m in monthly_sales]
AvailableStep(loc, ms) ==
    [loc EXCEPT !.available = @ \o (IF Months[loc.i] \in DOMAIN ms THEN <<Months[loc.i]>> ELSE <<>>),
                !.i = IF loc.i < Len(Months) THEN loc.i + 1 ELSE 1]

\* sales_trends()
SalesStep(at, loc, ms) ==
    CASE at = "start" ->         \* l.153
            IF DOMAIN ms = {} THEN Done(Return([labels |-> <<>>, datasets |-> <<>>]))
            ELSE Goto("157", MonthLocals)
      [] at = "157" ->
            LET next == AvailableStep(loc, ms)
            IN IF loc.i < Len(Months) THEN Goto("157", next)
               ELSE IF next.available = <<>> THEN Done(Return(SalesValue(<<>>, <<>>)))
               ELSE Goto("170", next)
      [] at = "170" ->           \* the i-th execution of df = monthly_sales[month]
            LET k == Len(loc.available)
                month == loc.available[((loc.i - 1) % k) + 1]
                c == ((loc.i - 1) \div k) + 1
            IN IF month \notin DOMAIN ms THEN Done(Raise("KeyError"))
               ELSE LET counts == Append(loc.counts, CategoryCount(ms[month], c))
                    IN IF loc.i < Len(Categories) * k
                       THEN Goto("170", [loc EXCEPT !.counts = counts, !.i = loc.i + 1])
                       ELSE Done(Return(SalesValue(loc.available, counts)))

\* np.polyfit(x, y, 1) evaluated at t, for x = 0..k-1: the exact value is
\* FitNum(y, t) / FitDen(y)
FitDen(y) ==
    LET k == Len(y)
        sx == SumSeq([i \in 1..k |-> i - 1])
        sxx == SumSeq([i \in 1..k |-> (i - 1) * (i - 1)])
    IN k * sxx - sx * sx

FitNum(y, t) ==
    LET k == Len(y)
        sx == SumSeq([i \in 1..k |-> i - 1])
        sxx == SumSeq([i \in 1..k |-> (i - 1) * (i - 1)])
        sy == SumSeq(y)
        sxy == SumSeq([i \in 1..k |-> (i - 1) * y[i]])
    IN (k * sxy - sx * sy) * t + (sy * sxx - sx * sxy)

\* int(p(t)) of the fitted line
ForecastPoint(y, t) ==
    Trunc(FitNum(y, t), FitDen(y))

\* the float 1.05
GrowthFactor ==
    FDivInt(FInt(GrowthNum), CostScale)

\* int(v * 1.05)
Grow(v) ==
    FFloor(FMulInt(GrowthFactor, v))

\* forecast(), l.190-205, from the months and the row counts it collected
ForecastValue(available, actual) ==
    LET k == Len(actual)
        f1 == IF k >= 2 THEN ForecastPoint(actual, k)
              ELSE IF k > 0 THEN Grow(actual[k]) ELSE DefaultForecast
        f2 == IF k >= 2 THEN ForecastPoint(actual, k + 1) ELSE Grow(f1)
        bridge == IF k > 0 THEN actual[k] ELSE DefaultForecast
    IN [labels |-> available \o <<"Forecast 1", "Forecast 2">>,
        actual |-> [j \in 1..k |-> Val(actual[j])] \o <<Absent, Absent>>,
        predicted |-> [j \in 1..(k - 1) |-> Absent] \o <<Val(bridge), Val(f1), Val(f2)>>]

\* forecast()
ForecastStep(at, loc, ms) ==
    CASE at = "start" ->         \* l.183
            IF DOMAIN ms = {} THEN Done(Return([labels |-> <<>>, actual |-> <<>>, predicted |-> <<>>]))
            ELSE Goto("187", MonthLocals)
      [] at = "187" ->
            LET next == AvailableStep(loc, ms)
            IN IF loc.i < Len(Months) THEN Goto("187", next)
               ELSE IF next.available = <<>> THEN Done(Return(ForecastValue(<<>>, <<>>)))
               ELSE Goto("188", next)
      [] at = "188" ->           \* len(monthly_sales[m]) of the i-th available month
            LET month == loc.available[loc.i]
            IN IF month \notin DOMAIN ms THEN Done(Raise("KeyError"))
               ELSE LET actual == Append(loc.counts, Len(ms[month].Group))
                    IN IF loc.i < Len(loc.available)
                       THEN Goto("188", [loc EXCEPT !.counts = actual, !.i = loc.i + 1])
                       ELSE Done(Return(ForecastValue(loc.available, actual)))

\* the alerts one row appends, in order
AlertsOfRow(row) ==
    (IF ~row.Number.nan /\ row.Number.v >= HighFrequency
     THEN << [type |-> "warning", ingredient |-> row.Ingredient, title |-> "High Frequency",
              message |-> <<FormatInt(row.Number.v), row.frequency>>] >>
     ELSE <<>>)
    \o
    (IF Contains(S_egg, Lower(row.Ingredient))
     THEN << [type |-> "critical", ingredient |-> row.Ingredient, title |-> "Critical Item",
              message |-> <<FormatInt(Mul(row.Quantity, row.Number).v), row.Unit, row.frequency>>] >>
     ELSE <<>>)

\* int(row['Quantity per shipment'] * row['Number of shipments']) of an egg row
\* raises ValueError on NaN
AlertRowRaises(row) ==
    Contains(S_egg, Lower(row.Ingredient)) /\ Mul(row.Quantity, row.Number).nan

\* alerts(), l.212-230, on the table it iterates
Alerts(sdf) ==
    IF \E i \in 1..Len(sdf.rows) : AlertRowRaises(sdf.rows[i]) THEN Raise("ValueError")
    ELSE Return(Take(Concat([i \in 1..Len(sdf.rows) |-> AlertsOfRow(sdf.rows[i])]), MaxAlerts))

\* alerts(); shipment_df.iterrows() of None is not caught
AlertsStep(at, loc, sdf) ==
    CASE at = "start" ->         \* l.211
            IF sdf.present THEN Goto("212", <<>>) ELSE Done(Return(<<>>))
      [] at = "212" ->
            IF sdf.present THEN Done(Alerts(sdf)) ELSE Done(Raise("AttributeError"))

Emojis ==
    << <<S_beef, "cut of meat">>, <<S_chicken, "poultry leg">>, <<S_ramen, "steaming bowl">>,
       <<S_egg, "egg">>, <<S_rice, "sheaf of rice">>, <<S_onion, "onion">>,
       <<S_carrot, "carrot">>, <<S_flour, "sheaf of rice">> >>

\* value of the first key of an ordered table that occurs in text, else default
FirstMatch(pairs, text, default) ==
    LET hits == {k \in DOMAIN pairs : Contains(pairs[k][1], text)}
    IN IF hits = {} THEN default
       ELSE pairs[CHOOSE k \in hits : \A h \in hits : k <= h][2]

\* shipment_schedule(), l.242-258, on the table it iterates, with draws[i]
\* the value np.random.randint gives for row i
ShipmentSchedule(sdf, draws) ==
    Return([i \in 1..Len(sdf.rows) |->
        LET row == sdf.rows[i]
        IN [ingredient |-> <<FirstMatch(Emojis, Lower(row.Ingredient), "package"), row.Ingredient>>,
            frequency |-> <<row.frequency, FormatInt(safe_val(row.Number, Num(0)).v)>>,
            nextDelivery |-> draws[i],
            overdue |-> FALSE]])

\* shipment_schedule(); shipment_df.iterrows() of None is caught by the try block
ScheduleStep(at, loc, sdf, draws) ==
    CASE at = "start" ->         \* l.234
            IF sdf.present THEN Goto("242", <<>>) ELSE Done(Return(<<>>))
      [] at = "242" ->
            IF sdf.present THEN Done(ShipmentSchedule(sdf, draws)) ELSE Done(Return(<<>>))

Costs ==
    << <<S_beef, 8 * CostScale>>, <<S_chicken, 4 * CostScale>>, <<S_egg, 30>>,
       <<S_rice, 2 * CostScale>>, <<S_ramen, 150>>, <<S_flour, 50>>,
       <<S_onion, 10>>, <<S_carrot, 3 * CostScale>> >>

\* cost_per_unit of a row, in units of 1/CostScale
cost_per_unit(row) ==
    FirstMatch(Costs, Lower(row.Ingredient), 3 * CostScale)

\* weekly_qty of a row of cost_analysis, in units of 1/UsageScale (NaN propagates)
weekly_qty(row) ==
    LET qty == Mul(row.Quantity, row.Number)
        freq == Lower(row.frequency)
    IN IF qty.nan THEN NaN
       ELSE IF Contains(S_weekly, freq) THEN Num(UsageScale * qty.v)
       ELSE IF Contains(S_biweekly, freq) THEN Num((UsageScale \div 2) * qty.v)
       ELSE IF Contains(S_monthly, freq) THEN Num(qty.v)
       ELSE Num(UsageScale * qty.v)

\* the value of cost_per_unit: the int or the float of the cost table
UnitCost(row) ==
    FDivInt(FInt(cost_per_unit(row)), CostScale)

\* weekly_cost of a row: weekly_qty * cost_per_unit as a float.  weekly_qty is
\* q / UsageScale with q an int, exactly, and UsageScale = 2^UsageBits, so the
\* product is float(q * cost_per_unit) scaled by 2^-UsageBits
weekly_cost(row) ==
    FScale(FMulInt(UnitCost(row), weekly_qty(row).v), -UsageBits)

\* f"${int(weekly_cost)}/wk"
CostText(row) ==
    S_dollar \o FormatInt(FFloor(weekly_cost(row))) \o S_perwk

\* the entry cost_analysis appends for a row
CostEntry(row) ==
    [ingredient |-> row.Ingredient,
     details |-> <<FormatInt(Trunc(weekly_qty(row).v, UsageScale)), row.Unit, cost_per_unit(row)>>,
     cost |-> CostText(row),
     percentage |-> Min(100, FFloor(FMulInt(FDivInt(weekly_cost(row), WeeklyBudget), 100)))]

\* the sort key: int(x['cost'].replace('$', '').replace('/wk', ''))
CostSortKey(entry) ==
    ParseInt(Replace(Replace(entry.cost, S_dollar, <<>>), S_perwk, <<>>))

\* positions of the list analysis in the order
\* analysis.sort(key=..., reverse=True) leaves them
CostOrder(analysis) ==
    SortedDesc([i \in 1..Len(analysis) |-> CostSortKey(analysis[i])], 1..Len(analysis))

\* cost_analysis(), l.272-303, on the table it iterates; int() of a NaN
\* quantity raises
CostAnalysis(sdf) ==
    IF \E i \in 1..Len(sdf.rows) : weekly_qty(sdf.rows[i]).nan THEN Raise("ValueError")
    ELSE LET analysis == [i \in 1..Len(sdf.rows) |-> CostEntry(sdf.rows[i])]
             order == Take(CostOrder(analysis), TopCost)
         IN Return([j \in 1..Len(order) |-> analysis[order[j]]])

\* cost_analysis(); shipment_df.iterrows() of None is not caught
CostStep(at, loc, sdf) ==
    CASE at = "start" ->         \* l.265
            IF sdf.present THEN Goto("272", <<>>) ELSE Done(Return(<<>>))
      [] at = "272" ->
            IF sdf.present THEN Done(CostAnalysis(sdf)) ELSE Done(Raise("AttributeError"))

FreshProduce ==
    <<S_GreenOnion, S_Cilantro, S_Bokchoy>>

\* the elements of a set of row indices, ascending
RECURSIVE Ascending(_)
Ascending(S) ==
    IF S = {} THEN <<>>
    ELSE LET lo == CHOOSE i \in S : \A j \in S : i <= j
         IN <<lo>> \o Ascending(S \ {lo})

\* locals of recommendations(): recs, the table the subscript of l.310 is
\* applied to, and the position in the list fresh
RecsLocals ==
    [recs |-> <<>>, outer |-> NoShipment, i |-> 1]

\* l.310-317: outer[mask['Number of shipments'] >= 4] and the recommendation
\* made of it; the rows of outer are selected by the mask at the same index
BulkBuying(outer, mask) ==
    LET high_freq == Ascending({i \in 1..Len(outer.rows) :
                        ~mask.rows[i].Number.nan /\ mask.rows[i].Number.v >= BulkThreshold})
        items == [j \in 1..Min(2, Len(high_freq)) |-> outer.rows[high_freq[j]].Ingredient]
    IN IF Len(high_freq) > 0
       THEN << [type |-> "success", title |-> "Bulk Buying Opportunity", message |-> items] >>
       ELSE <<>>

\* recommendations()
RecsStep(at, loc, idf, sdf) ==
    CASE at = "start" ->         \* l.309
            IF sdf.present THEN Goto("310", RecsLocals) ELSE Goto("327", RecsLocals)
      [] at = "310" ->           \* l.310: the table that is subscripted
            Goto("310mask", [loc EXCEPT !.outer = sdf])
      [] at = "310mask" ->       \* l.310: shipment_df['Number of shipments'] >= 4; a mask
                                 \* without an entry for a row of the table is an IndexingError
            IF ~sdf.present \/ ~loc.outer.present THEN Done(Raise("TypeError"))
            ELSE IF Len(sdf.rows) < Len(loc.outer.rows) THEN Done(Raise("IndexingError"))
            ELSE Goto("320", [loc EXCEPT !.recs = BulkBuying(loc.outer, sdf)])
      [] at = "320" ->           \* l.320: item in shipment_df['Ingredient'].values, for
                                 \* the i-th item of fresh
            IF ~sdf.present THEN Done(Raise("TypeError"))
            ELSE IF \E r \in 1..Len(sdf.rows) : sdf.rows[r].Ingredient = FreshProduce[loc.i]
                 THEN Goto("327", [loc EXCEPT !.recs = @ \o
                         << [type |-> "success", title |-> "Reduce Waste", message |-> <<>>] >>])
            ELSE IF loc.i < Len(FreshProduce) THEN Goto("320", [loc EXCEPT !.i = loc.i + 1])
            ELSE Goto("327", loc)
      [] at = "327" ->
            IF idf.present THEN Goto("331", loc) ELSE Done(Return(loc.recs))
      [] at = "331" ->           \* len(ingredient_df)
            IF idf.present
            THEN Done(Return(loc.recs \o
                    << [type |-> "success", title |-> "Menu Engineering",
                        message |-> <<FormatInt(Len(idf.rows))>>] >>))
            ELSE Done(Raise("TypeError"))

NoProtein ==
    [set |-> FALSE, amount |-> <<>>, shipments |-> <<>>]

IsBeef(row) ==
    Contains(S_beef, Lower(row.Ingredient))
IsChicken(row) ==
    ~IsBeef(row) /\ Contains(S_chicken, Lower(row.Ingredient))
               /\ ~Contains(S_wing, Lower(row.Ingredient))

\* qty of a row of protein_forecast, in units of 1/UsageScale (NaN propagates)
protein_qty(row) ==
    LET qty == Mul(row.Quantity, row.Number)
        freq == Lower(row.frequency)
    IN IF qty.nan THEN NaN
       ELSE IF ~Contains(S_weekly, freq)
            THEN (IF Contains(S_biweekly, freq) THEN Num((UsageScale \div 2) * qty.v)
                  ELSE Num(qty.v))
            ELSE Num(UsageScale * qty.v)

ProteinEntry(row) ==
    [set |-> TRUE,
     amount |-> <<FormatInt(Trunc(protein_qty(row).v, UsageScale)), row.Unit>>,
     shipments |-> FormatInt(row.Number.v)]

\* the entry of the last of the rows hits, as the dict keeps it
LastEntry(rows, hits) ==
    IF hits = {} THEN NoProtein
    ELSE ProteinEntry(rows[CHOOSE i \in hits : \A h \in hits : h <= i])

\* protein_forecast(), l.341-364, on the table it iterates
ProteinForecast(sdf) ==
    IF \E i \in 1..Len(sdf.rows) :
          (IsBeef(sdf.rows[i]) \/ IsChicken(sdf.rows[i])) /\ protein_qty(sdf.rows[i]).nan
    THEN Raise("ValueError")
    ELSE Return([beef |-> LastEntry(sdf.rows, {i \in 1..Len(sdf.rows) : IsBeef(sdf.rows[i])}),
                 chicken |-> LastEntry(sdf.rows, {i \in 1..Len(sdf.rows) : IsChicken(sdf.rows[i])}),
                 pork |-> [set |-> TRUE, amount |-> <<"40 lbs">>, shipments |-> "estimated"]])

\* protein_forecast(); shipment_df.iterrows() of None is not caught
ProteinStep(at, loc, sdf) ==
    CASE at = "start" ->         \* l.338
            IF sdf.present THEN Goto("342", <<>>)
            ELSE Done(Return([beef |-> NoProtein, chicken |-> NoProtein, pork |-> NoProtein]))
      [] at = "342" ->
            IF sdf.present THEN Done(ProteinForecast(sdf)) ELSE Done(Raise("AttributeError"))

ProteinColumns ==
    <<S_BraisedBeef, S_BraisedChicken, S_BraisedPork>>

\* col.replace('(g)', '').replace('(count)', '').replace('(pcs)', '').strip()
CleanColumn(col) ==
    Strip(Replace(Replace(Replace(col, S_g, <<>>), S_count, <<>>), S_pcs, <<>>))

\* position of the column col in a list of columns, 0 when it is not there
ColumnIndex(columns, col) ==
    IF \E j \in DOMAIN columns : columns[j] = col
    THEN CHOOSE j \in DOMAIN columns : columns[j] = col /\ \A h \in 1..(j - 1) : columns[h] # col
    ELSE 0

\* row[col] of a row of the table with the given columns; row.vals[j] is the
\* cell of columns[j + 1], and the first column is the item name
Cell(columns, row, col) ==
    row.vals[ColumnIndex(columns, col) - 1]

\* one entry of ingredient_matrix(), l.373-393: row is a row of the table
\* with the columns own, and cols is ingredient_df.columns as l.374 reads it
MatrixEntry(cols, own, row) ==
    LET used == {j \in 2..Len(cols) :
                   ~Cell(own, row, cols[j]).nan /\ Cell(own, row, cols[j]).v # 0}
        ingredients == Concat([j \in 1..Len(cols) |->
                          IF j \in used THEN <<CleanColumn(cols[j])>> ELSE <<>>])
        found == {p \in DOMAIN ProteinColumns :
                    /\ ColumnIndex(own, ProteinColumns[p]) > 1
                    /\ ~Cell(own, row, ProteinColumns[p]).nan
                    /\ Cell(own, row, ProteinColumns[p]).v > 0}
        protein == IF found = {} THEN <<"0">>
                   ELSE LET p == CHOOSE q \in found : \A r \in found : q <= r
                        IN FormatInt(Cell(own, row, ProteinColumns[p]).v)
        n == Len(ingredients)
    IN [menuItem |-> row.name,
        keyIngredients |-> Take(ingredients, 4),
        protein |-> protein,
        complexity |-> IF n <= 3 THEN "Low" ELSE IF n <= 6 THEN "Medium" ELSE "High"]

\* locals of ingredient_matrix(): the table iterated, the row at hand, matrix
MatrixLocals ==
    [own |-> NoIngredient, i |-> 1, matrix |-> <<>>]

\* ingredient_matrix()
MatrixStep(at, loc, idf) ==
    CASE at = "start" ->         \* l.368
            IF idf.present THEN Goto("372", MatrixLocals) ELSE Done(Return(<<>>))
      [] at = "372" ->           \* ingredient_df.iterrows()
            IF ~idf.present THEN Done(Raise("AttributeError"))
            ELSE IF Len(idf.rows) = 0 THEN Done(Return(<<>>))
            ELSE Goto("374", [loc EXCEPT !.own = idf])
      [] at = "374" ->           \* l.374-393 for the i-th row: ingredient_df.columns[1:]
            IF ~idf.present THEN Done(Raise("AttributeError"))
            ELSE IF \E j \in 2..Len(idf.columns) : ColumnIndex(loc.own.columns, idf.columns[j]) = 0
                 THEN Done(Raise("KeyError"))
            ELSE LET matrix == Append(loc.matrix,
                                  MatrixEntry(idf.columns, loc.own.columns, loc.own.rows[loc.i]))
                 IN IF loc.i < Len(loc.own.rows)
                    THEN Goto("374", [loc EXCEPT !.matrix = matrix, !.i = loc.i + 1])
                    ELSE Done(Return(matrix))

----------------------------------------------------------------------------
(* Input data: the files on disk *)

GroupPool ==
    <<G_TonkotsuRamen, G_ChickenCutlet, G_Drinks>>

\* a sales sheet of n rows
SalesTable(n) ==
    [hasGroup |-> TRUE, Group |-> [i \in 1..n |-> GroupPool[(i % Len(GroupPool)) + 1]]]

SalesFile(n) ==
    [exists |-> TRUE, readable |-> TRUE, table |-> SalesTable(n)]
NoSalesFile ==
    [exists |-> FALSE, readable |-> FALSE, table |-> SalesTable(0)]
CorruptSalesFile ==
    [exists |-> TRUE, readable |-> FALSE, table |-> SalesTable(0)]

IngredientTable ==
    [present |-> TRUE,
     columns |-> <<S_ItemName, S_BraisedBeef, S_EggCount, S_RiceG>>,
     rows |-> << [name |-> I_BeefRamen, vals |-> <<Num(120), Num(1), NaN>>],
                 [name |-> I_EggRice, vals |-> <<Num(0), Num(2), Num(200)>>] >>]

ShipRowPool ==
    << ShipRow(N_Egg, NaN, Num(5), F_Weekly, U_case),
       ShipRow(N_Beef, Num(3), Num(1), F_Biweekly, U_lbs),
       ShipRow(N_Rice, Num(1), Num(1), F_Monthly, U_lbs),
       ShipRow(N_Carrot, Num(1), Num(1), F_Monthly, U_lbs),
       ShipRow(N_Chicken, Num(2), Num(4), F_Weekly, U_lbs),
       ShipRow(N_Egg, Num(2), Num(5), F_Daily, U_case),
       ShipRow(S_GreenOnion, Num(2), Num(1), F_Weekly, U_lbs),
       ShipRow(N_ChickenWings, Num(1), NaN, F_Monthly, U_lbs) >>

ShipFile(rows) ==
    [exists |-> TRUE, readable |-> TRUE, table |-> ShipmentTable(rows)]
NoShipFile ==
    [exists |-> FALSE, readable |-> FALSE, table |-> NoShipment]
IngredientFile ==
    [exists |-> TRUE, readable |-> TRUE, table |-> IngredientTable]
NoIngredientFile ==
    [exists |-> FALSE, readable |-> FALSE, table |-> NoIngredient]
CorruptIngredientFile ==
    [exists |-> TRUE, readable |-> FALSE, table |-> NoIngredient]

EmptyDisk ==
    [sales |-> <<NoSalesFile, NoSalesFile, NoSalesFile, NoSalesFile, NoSalesFile, NoSalesFile>>,
     ingredient |-> NoIngredientFile,
     shipment |-> NoShipFile]

Disks ==
    { [sales |-> <<SalesFile(1), SalesFile(2), SalesFile(4), NoSalesFile, NoSalesFile, NoSalesFile>>,
       ingredient |-> IngredientFile,
       shipment |-> ShipFile(<<ShipRowPool[1]>>)],
      [sales |-> <<NoSalesFile, NoSalesFile, CorruptSalesFile, SalesFile(3), NoSalesFile, NoSalesFile>>,
       ingredient |-> CorruptIngredientFile,
       shipment |-> ShipFile(<<>>)],
      EmptyDisk }

----------------------------------------------------------------------------
(* The system: load_data and the endpoints *)

\* what a complete load_data leaves in the globals for the files d
Snapshot(d) ==
    << [m \in {Months[i] : i \in {j \in DOMAIN Months : d.sales[j].exists /\ d.sales[j].readable}}
          |-> d.sales[CHOOSE i \in DOMAIN Months : Months[i] = m].table],
       IF d.ingredient.exists /\ d.ingredient.readable THEN d.ingredient.table ELSE NoIngredient,
       IF d.shipment.exists /\ d.shipment.readable THEN d.shipment.table ELSE NoShipment >>

Init ==
    /\ disk \in Disks
    /\ monthly_sales = EmptySales
    /\ ingredient_df = NoIngredient
    /\ shipment_df = NoShipment
    /\ pc = "idle"
    /\ mi = 1
    /\ loads = 0
    /\ old = <<EmptySales, NoIngredient, NoShipment>>
    /\ written = <<EmptySales, NoIngredient, NoShipment>>
    /\ replaced = 0
    /\ call = NoCall
    /\ result = NoResult
    /\ ref = NoResult

\* the files are replaced, at any time
ReplaceFiles ==
    /\ replaced < MaxReplacements
    /\ replaced' = replaced + 1
    /\ \E d \in Disks : d # disk /\ disk' = d
    /\ UNCHANGED <<monthly_sales, ingredient_df, shipment_df, pc, mi, loads, old, written, call, result, ref>>

\* load_data() is called (the first call is startup())
LoadCall ==
    /\ pc = "idle"
    /\ loads < MaxLoads
    /\ pc' = "l51"
    /\ loads' = loads + 1
    /\ old' = Globals
    /\ UNCHANGED <<disk, replaced, monthly_sales, ingredient_df, shipment_df, mi, written, call, result, ref>>

\* monthly_sales = {}
LoadResetSales ==
    /\ pc = "l51"
    /\ monthly_sales' = EmptySales
    /\ written' = <<monthly_sales', ingredient_df, shipment_df>>
    /\ pc' = "l52"
    /\ UNCHANGED <<disk, replaced, ingredient_df, shipment_df, mi, loads, old, call, result, ref>>

\* ingredient_df = None
LoadResetIngredient ==
    /\ pc = "l52"
    /\ ingredient_df' = NoIngredient
    /\ written' = <<monthly_sales, ingredient_df', shipment_df>>
    /\ pc' = "l53"
    /\ UNCHANGED <<disk, replaced, monthly_sales, shipment_df, mi, loads, old, call, result, ref>>

\* shipment_df = None
LoadResetShipment ==
    /\ pc = "l53"
    /\ shipment_df' = NoShipment
    /\ written' = <<monthly_sales, ingredient_df, shipment_df'>>
    /\ pc' = "month"
    /\ mi' = 1
    /\ UNCHANGED <<disk, replaced, monthly_sales, ingredient_df, loads, old, call, result, ref>>

\* one iteration of the loop over the month files
LoadMonth ==
    /\ pc = "month"
    /\ LET f == disk.sales[mi]
       IN monthly_sales' = IF f.exists /\ f.readable
                           THEN DictSet(monthly_sales, Months[mi], f.table)
                           ELSE monthly_sales
    /\ written' = <<monthly_sales', ingredient_df, shipment_df>>
    /\ IF mi < Len(Months)
       THEN mi' = mi + 1 /\ pc' = pc
       ELSE mi' = 1 /\ pc' = "ingredient"
    /\ UNCHANGED <<disk, replaced, ingredient_df, shipment_df, loads, old, call, result, ref>>

\* the ingredient CSV
LoadIngredient ==
    /\ pc = "ingredient"
    /\ LET f == disk.ingredient
       IN ingredient_df' = IF f.exists
                           THEN (IF f.readable THEN f.table ELSE NoIngredient)
                           ELSE ingredient_df
    /\ written' = <<monthly_sales, ingredient_df', shipment_df>>
    /\ pc' = "shipment"
    /\ UNCHANGED <<disk, replaced, monthly_sales, shipment_df, mi, loads, old, call, result, ref>>

\* the shipment CSV; load_data returns
LoadShipment ==
    /\ pc = "shipment"
    /\ LET f == disk.shipment
       IN shipment_df' = IF f.exists
                         THEN (IF f.readable THEN f.table ELSE NoShipment)
                         ELSE shipment_df
    /\ written' = <<monthly_sales, ingredient_df, shipment_df'>>
    /\ pc' = "idle"
    /\ UNCHANGED <<disk, replaced, monthly_sales, ingredient_df, mi, loads, old, call, result, ref>>

\* requests are served once startup() has returned
Serving ==
    loads > 1 \/ (loads = 1 /\ pc = "idle")

\* a request for the handler op arrives, or the one being handled goes on
Running(op) ==
    Serving /\ (call.op = "none" \/ call.op = op)

\* the handler op has executed the statement s: it is at its next statement,
\* or it has returned (or raised) and result holds its outcome
Advance(op, s) ==
    IF s.done
    THEN call' = NoCall /\ result' = [op |-> op, raised |-> s.out.raised, value |-> s.out.value]
    ELSE call' = [op |-> op, at |-> s.at, loc |-> s.loc] /\ result' = NoResult

metrics ==
    /\ Running("metrics")
    /\ Advance("metrics", MetricsStep(call.at, call.loc, ingredient_df, shipment_df))
    /\ UNCHANGED <<disk, replaced, monthly_sales, ingredient_df, shipment_df, pc, mi, loads, old, written, ref>>

ingredient_usage ==
    /\ Running("ingredient_usage")
    /\ Advance("ingredient_usage", UsageStep(call.at, call.loc, shipment_df))
    /\ shipment_df' = IF call.at = "128" THEN ShipmentAfterUsage(shipment_df) ELSE shipment_df
    /\ UNCHANGED <<disk, replaced, monthly_sales, ingredient_df, pc, mi, loads, old, written, ref>>

sales_trends ==
    /\ Running("sales_trends")
    /\ Advance("sales_trends", SalesStep(call.at, call.loc, monthly_sales))
    /\ UNCHANGED <<disk, replaced, monthly_sales, ingredient_df, shipment_df, pc, mi, loads, old, written, ref>>

forecast ==
    /\ Running("forecast")
    /\ Advance("forecast", ForecastStep(call.at, call.loc, monthly_sales))
    /\ UNCHANGED <<disk, replaced, monthly_sales, ingredient_df, shipment_df, pc, mi, loads, old, written, ref>>

alerts ==
    /\ Running("alerts")
    /\ Advance("alerts", AlertsStep(call.at, call.loc, shipment_df))
    /\ UNCHANGED <<disk, replaced, monthly_sales, ingredient_df, shipment_df, pc, mi, loads, old, written, ref>>

shipment_schedule ==
    /\ Running("shipment_schedule")
    /\ \E draws \in [1..Len(shipment_df.rows) -> RandLow..(RandHigh - 1)] :
          Advance("shipment_schedule", ScheduleStep(call.at, call.loc, shipment_df, draws))
    /\ UNCHANGED <<disk, replaced, monthly_sales, ingredient_df, shipment_df, pc, mi, loads, old, written, ref>>

cost_analysis ==
    /\ Running("cost_analysis")
    /\ Advance("cost_analysis", CostStep(call.at, call.loc, shipment_df))
    /\ UNCHANGED <<disk, replaced, monthly_sales, ingredient_df, shipment_df, pc, mi, loads, old, written, ref>>

recommendations ==
    /\ Running("recommendations")
    /\ Advance("recommendations", RecsStep(call.at, call.loc, ingredient_df, shipment_df))
    /\ UNCHANGED <<disk, replaced, monthly_sales, ingredient_df, shipment_df, pc, mi, loads, old, written, ref>>

protein_forecast ==
    /\ Running("protein_forecast")
    /\ Advance("protein_forecast", ProteinStep(call.at, call.loc, shipment_df))
    /\ UNCHANGED <<disk, replaced, monthly_sales, ingredient_df, shipment_df, pc, mi, loads, old, written, ref>>

ingredient_matrix ==
    /\ Running("ingredient_matrix")
    /\ Advance("ingredient_matrix", MatrixStep(call.at, call.loc, ingredient_df))
    /\ UNCHANGED <<disk, replaced, monthly_sales, ingredient_df, shipment_df, pc, mi, loads, old, written, ref>>

Next ==
    \/ ReplaceFiles
    \/ LoadCall
    \/ LoadResetSales
    \/ LoadResetIngredient
    \/ LoadResetShipment
    \/ LoadMonth
    \/ LoadIngredient
    \/ LoadShipment
    \/ metrics
    \/ ingredient_usage
    \/ sales_trends
    \/ forecast
    \/ alerts
    \/ shipment_schedule
    \/ cost_analysis
    \/ recommendations
    \/ protein_forecast
    \/ ingredient_matrix

Spec ==
    Init /\ [][Next]_vars

----------------------------------------------------------------------------
(* The shipment endpoints on bounded shipment tables *)

\* every table of at most MaxRows rows of the pool, and every prefix of the pool
RECURSIVE RowsOf(_)
RowsOf(pick) ==
    IF pick = <<>> THEN <<>> ELSE <<ShipRowPool[Head(pick)]>> \o RowsOf(Tail(pick))

ShipTables ==
    { RowsOf(pick) : pick \in UNION {[1..n -> DOMAIN ShipRowPool] : n \in 0..MaxRows} }
    \cup { SubSeq(ShipRowPool, 1, n) : n \in 0..Len(ShipRowPool) }

\* the state after startup() has loaded the files d
Loaded(d) ==
    /\ disk = d
    /\ monthly_sales = Snapshot(d)[1]
    /\ ingredient_df = Snapshot(d)[2]
    /\ shipment_df = Snapshot(d)[3]
    /\ pc = "idle"
    /\ mi = 1
    /\ loads = 1
    /\ old = <<EmptySales, NoIngredient, NoShipment>>
    /\ written = Snapshot(d)
    /\ replaced = 0
    /\ call = NoCall
    /\ result = NoResult
    /\ ref = NoResult

InitShip ==
    \E rows \in ShipTables : Loaded([EmptyDisk EXCEPT !.shipment = ShipFile(rows)])

NextShip ==
    \/ ingredient_usage
    \/ cost_analysis
    \/ alerts

SpecShip ==
    InitShip /\ [][NextShip]_vars

----------------------------------------------------------------------------
(* The sales endpoints on bounded sets of month files *)

SalesFiles ==
    {NoSalesFile} \cup {SalesFile(n) : n \in 0..MaxCount}

InitSales ==
    \E files \in [DOMAIN Months -> SalesFiles] :
        /\ Cardinality({i \in DOMAIN Months : files[i].exists}) <= MaxPeriods
        /\ Loaded([EmptyDisk EXCEPT !.sales = files])

NextSales ==
    \/ forecast
    \/ sales_trends

SpecSales ==
    InitSales /\ [][NextSales]_vars

----------------------------------------------------------------------------
(* Repeated calls on one snapshot: no load_data runs, and a response may   *)
(* be kept in ref to compare the later responses of the endpoint with      *)

InitQuery ==
    \E d \in Disks : Loaded(d)

\* the response just given is kept
Remember ==
    /\ result.op # "none"
    /\ ref' = result
    /\ UNCHANGED <<disk, replaced, monthly_sales, ingredient_df, shipment_df, pc, mi, loads, old, written, call, result>>

NextQuery ==
    \/ Remember
    \/ metrics
    \/ ingredient_usage
    \/ sales_trends
    \/ forecast
    \/ alerts
    \/ shipment_schedule
    \/ cost_analysis
    \/ recommendations
    \/ protein_forecast
    \/ ingredient_matrix

SpecQuery ==
    InitQuery /\ [][NextQuery]_vars

----------------------------------------------------------------------------
(* Reference definitions of the specification (sections 4.2 - 4.6) *)

\* section 4.2: weeklyUsage of a record in units of 1/UsageScale, the factor
\* chosen in the order biweekly, monthly, weekly, unrecognized
NormalizedWeekly(row) ==
    LET qty == safe_val(row.Quantity, Num(0)).v * safe_val(row.Number, Num(0)).v
        freq == Lower(row.frequency)
    IN IF Contains(S_biweekly, freq) THEN (UsageScale \div 2) * qty
       ELSE IF Contains(S_monthly, freq) THEN qty
       ELSE IF Contains(S_weekly, freq) THEN UsageScale * qty
       ELSE UsageScale * qty

\* section 4.5: the alerts of one record as <<type, ingredient>>
ExpectedAlertsOfRow(row) ==
    (IF safe_val(row.Number, Num(0)).v >= 5 THEN << <<"warning", row.Ingredient>> >> ELSE <<>>)
    \o (IF Contains(S_egg, Lower(row.Ingredient))
        THEN << <<"critical", row.Ingredient>> >> ELSE <<>>)

ExpectedAlerts(rows) ==
    Take(Concat([i \in 1..Len(rows) |-> ExpectedAlertsOfRow(rows[i])]), 3)

\* section 4.3: topUsage
ExpectedTopUsage(rows) ==
    LET usage == [i \in 1..Len(rows) |-> NormalizedWeekly(rows[i])]
        top == Take(SortedDesc(usage, DOMAIN usage), 6)
    IN [labels |-> [j \in 1..Len(top) |-> rows[top[j]].Ingredient],
        data |-> [j \in 1..Len(top) |-> Trunc(usage[top[j]], UsageScale)]]

\* section 4.4: weeklyUsage * unitCost of a record, in units of
\* 1/(UsageScale * CostScale)
NumericWeeklyCost(row) ==
    weekly_qty(row).v * cost_per_unit(row)

\* the row counts of the loaded periods in canonical order
Actual ==
    [j \in 1..Len(Available(monthly_sales)) |-> Len(monthly_sales[Available(monthly_sales)[j]].Group)]

\* the last two entries of forecast()'s predicted list
Predicted1 ==
    result.value.predicted[Len(result.value.predicted) - 1]
Predicted2 ==
    result.value.predicted[Len(result.value.predicted)]

----------------------------------------------------------------------------
(* Claims *)

\* C1: the weekly-equivalent factor is chosen in the priority order biweekly
\* (0.5), monthly (0.25), weekly (1.0), unrecognized (1.0): every value that
\* ingredient_usage returns, and every weekly quantity that cost_analysis
\* reports, is the integer part of quantity * count * factor of a record of
\* that name, so a "biweekly" record is reported at half its quantity.
C1_FrequencyPriority ==
    /\ result.op = "ingredient_usage" =>
          \A j \in DOMAIN result.value.data :
             \E i \in 1..Len(shipment_df.rows) :
                /\ shipment_df.rows[i].Ingredient = result.value.labels[j]
                /\ result.value.data[j] = Trunc(NormalizedWeekly(shipment_df.rows[i]), UsageScale)
    /\ (result.op = "cost_analysis" /\ ~result.raised) =>
          \A j \in DOMAIN result.value :
             \E i \in 1..Len(shipment_df.rows) :
                /\ shipment_df.rows[i].Ingredient = result.value[j].ingredient
                /\ result.value[j].details[1] =
                      FormatInt(Trunc(NormalizedWeekly(shipment_df.rows[i]), UsageScale))

\* C2: no endpoint lets an exception out to its caller, whatever tables are
\* absent and whichever numeric cells are NaN.
C2_NeverRaises ==
    ~result.raised

\* C3: while a reload runs and requests are served, the three globals are
\* the snapshot from before the reload or a complete new one, never a mix.
C3_AtomicSwap ==
    (Serving /\ pc # "idle") => (Globals = old \/ \E d \in Disks : Globals = Snapshot(d))

\* C4: alerts returns the first 3 of the sequence obtained by visiting the
\* records in row order and emitting a warning iff numberOfShipments >= 5 and
\* then a critical alert iff the name contains "egg", for every shipment table.
C4_AlertsFirstThree ==
    result.op = "alerts" =>
       /\ ~result.raised
       /\ [j \in 1..Len(result.value) |-> <<result.value[j].type, result.value[j].ingredient>>]
             = ExpectedAlerts(shipment_df.rows)

\* C5: cost_analysis returns at most 5 entries in descending order of the
\* numeric weekly cost (not of the truncated, formatted cost): with kept the
\* rows whose entries are returned, in the order returned, no row is placed
\* after a row of smaller weekly cost, and no row is left out while a row of
\* smaller weekly cost is kept.
C5_SortedByNumericCost ==
    (result.op = "cost_analysis" /\ ~result.raised) =>
       LET rows == shipment_df.rows
           kept == Take(CostOrder([i \in 1..Len(rows) |-> CostEntry(rows[i])]), TopCost)
       IN /\ Len(result.value) <= 5
          /\ result.value = [j \in 1..Len(kept) |-> CostEntry(rows[kept[j]])]
          /\ \A j, k \in 1..Len(kept) :
                j < k => NumericWeeklyCost(rows[kept[j]]) >= NumericWeeklyCost(rows[kept[k]])
          /\ \A a \in 1..Len(rows) : \A k \in 1..Len(kept) :
                (\A j \in 1..Len(kept) : kept[j] # a)
                   => NumericWeeklyCost(rows[a]) <= NumericWeeklyCost(rows[kept[k]])

\* C6: with fewer than 2 loaded periods forecast uses the growth fallback:
\* with none, forecast1 = 500 and forecast2 = round(500 * 1.05) under the
\* labels Forecast 1, Forecast 2; with one period of value v,
\* forecast1 = round(v * 1.05) and forecast2 = round(forecast1 * 1.05).
C6_GrowthFallback ==
    (result.op = "forecast" /\ Len(Actual) < 2) =>
       LET f1 == IF Len(Actual) = 0 THEN 500 ELSE RoundNearest(Actual[1] * 105, 100)
           f2 == RoundNearest(f1 * 105, 100)
       IN /\ result.value.labels = Available(monthly_sales) \o <<"Forecast 1", "Forecast 2">>
          /\ Predicted1 = Val(f1)
          /\ Predicted2 = Val(f2)

\* C7: with k >= 2 loaded periods forecast1 and forecast2 are the values of
\* the least-squares line at k and k + 1, rounded to the nearest integer.
C7_LeastSquaresRounded ==
    (result.op = "forecast" /\ Len(Actual) >= 2) =>
       /\ Predicted1 = Val(RoundNearest(FitNum(Actual, Len(Actual)), FitDen(Actual)))
       /\ Predicted2 = Val(RoundNearest(FitNum(Actual, Len(Actual) + 1), FitDen(Actual)))

\* C8: ingredient_usage returns the (at most 6) records of largest
\* weeklyUsage in descending order, ties in row order, with their names and
\* integer-truncated weeklyUsage, and empty lists for an absent or empty table.
C8_TopUsage ==
    result.op = "ingredient_usage" =>
       /\ ~result.raised
       /\ result.value = IF shipment_df.present
                         THEN ExpectedTopUsage(shipment_df.rows)
                         ELSE EmptyUsage

\* C9: an endpoint called twice on the same snapshot, with other calls in
\* between and no reload, returns the same value both times.
C9_Deterministic ==
    ref.op = result.op => ref = result

\* C10: no endpoint changes the loaded tables: the three globals always hold
\* what load_data last assigned to them.
C10_QueriesLeaveSnapshot ==
    Globals = written

\* C10 witness: ingredient_usage has returned a ranking of a loaded shipment
\* table
C10_UsageServed ==
    /\ result.op = "ingredient_usage"
    /\ shipment_df.present
    /\ Len(result.value.labels) > 0
    /\ pc = "idle"

----------------------------------------------------------------------------
(* Supporting facts: what the code does where C4 and C8 fail *)

\* when alerts returns, it returns what C4 describes
AlertsWhenReturned ==
    (result.op = "alerts" /\ ~result.raised) =>
       [j \in 1..Len(result.value) |-> <<result.value[j].type, result.value[j].ingredient>>]
          = ExpectedAlerts(shipment_df.rows)

\* ingredient_usage ranks by the quantity weekly_calc computed, as C8 describes
UsageRankedByComputed ==
    (result.op = "ingredient_usage" /\ shipment_df.present) =>
       LET rows == shipment_df.rows
           usage == [i \in 1..Len(rows) |-> weekly_calc(rows[i])]
           top == Take(SortedDesc(usage, DOMAIN usage), 6)
       IN result.value.data = [j \in 1..Len(top) |-> Trunc(usage[top[j]], UsageScale)]
====
